---- MODULE Spec2Model ----
(***************************************************************************)
(* Model of dbtools.go: a struct-to-row mapper.  A TableMap is an ordered  *)
(* set of column bindings (name -> lazily evaluated accessor); CreateSql   *)
(* and FindSql render INSERT / SELECT statements from it, Create and Find  *)
(* hand them to the SQL driver, and Find feeds the rows of the cursor to a *)
(* caller-supplied callback.                                               *)
(*                                                                         *)
(* Texts are TLA+ strings; a sql.NullString is a record [String, Valid].   *)
(* A TableMapInput (a closure) is a record naming the closure's code and   *)
(* what it captured; Call evaluates it.                                    *)
(***************************************************************************)
EXTENDS Integers, Sequences, FiniteSets, TLC

VARIABLES
    tm,        \* the TableMap under construction: [TableName, Fields, fieldOrder]
    calls,     \* history: the StringCol/IntCol calls made on tm, in order
    table,     \* rows of the messages table held by the database
    pc,        \* "build" | "next" | "parse" | "done"
    rows,      \* the *sql.Rows cursor of the Find in progress
    seen,      \* history: the rows the callback was invoked on, in order
    ret,       \* what the last Create / Find returned
    stmt,      \* the last statement handed to the driver
    created,   \* history: the calls of each TableMap whose Create succeeded
    arg,       \* accessor under test (IntCol specification)
    out        \* result of evaluating the accessor under test

vars == <<tm, calls, table, pc, rows, seen, ret, stmt, created, arg, out>>

-----------------------------------------------------------------------------
(* Bounds *)

MaxLen == 3      \* longest text enumerated for the integer binder
MaxBinds == 3    \* StringCol/IntCol calls on one TableMap
MaxRows == 3     \* rows the table may hold

-----------------------------------------------------------------------------
(* Program constants *)

TABLE_NAME == "messages"

-----------------------------------------------------------------------------
(* strconv.Itoa / strconv.Atoi *)

Digits == <<"0", "1", "2", "3", "4", "5", "6", "7", "8", "9">>

IsDigit(c) == \E d \in 1..10 : Digits[d] = c

\* value of a digit character
DigitVal(c) == (CHOOSE d \in 1..10 : Digits[d] = c) - 1

CharAt(s, i) == SubSeq(s, i, i)

RECURSIVE UDigits(_)
\* decimal digits of a natural number
UDigits(n) == IF n < 10 THEN Digits[n + 1]
              ELSE UDigits(n \div 10) \o Digits[(n % 10) + 1]

Itoa(n) == IF n < 0 THEN "-" \o UDigits(0 - n) ELSE UDigits(n)

RECURSIVE StripZeros(_)
StripZeros(s) == IF Len(s) > 0 /\ Head(s) = "0" THEN StripZeros(Tail(s)) ELSE s

RECURSIVE DigitsLeq(_, _)
\* a <= b for two digit strings of the same length
DigitsLeq(a, b) ==
    IF Len(a) = 0 THEN TRUE
    ELSE IF DigitVal(Head(a)) < DigitVal(Head(b)) THEN TRUE
    ELSE IF DigitVal(Head(a)) > DigitVal(Head(b)) THEN FALSE
    ELSE DigitsLeq(Tail(a), Tail(b))

MaxInt64 == "9223372036854775807"
MinInt64Abs == "9223372036854775808"

HasSign(s) == Len(s) > 0 /\ Head(s) \in {"-", "+"}

\* the text after an optional leading sign
Unsigned(s) == IF HasSign(s) THEN Tail(s) ELSE s

\* the magnitude fits a 64-bit int
InRange(neg, digits) ==
    LET d == StripZeros(digits) IN
    \/ Len(d) < Len(MaxInt64)
    \/ /\ Len(d) = Len(MaxInt64)
       /\ DigitsLeq(d, IF neg THEN MinInt64Abs ELSE MaxInt64)

\* strconv.Atoi(s) returns a nil error
AtoiOk(s) ==
    LET u == Unsigned(s) IN
    /\ Len(u) > 0
    /\ \A i \in 1..Len(u) : IsDigit(CharAt(u, i))
    /\ InRange(Len(s) > 0 /\ Head(s) = "-", u)

-----------------------------------------------------------------------------
(* Accessors: TableMapInput closures *)

NullString(s, valid) == [String |-> s, Valid |-> valid]

\* a *int or *string captured by a closure
Nil == [nil |-> TRUE, int |-> 0, str |-> ""]
IntPtr(n) == [nil |-> FALSE, int |-> n, str |-> ""]
StrPtr(s) == [nil |-> FALSE, int |-> 0, str |-> s]

\* a closure: its code (fn), the pointer it captured (ptr) or, for any other
\* closure of type TableMapInput, the NullString it returns (ns); checked
\* marks the closure IntCol builds around it
FromString(v) ==
    [fn |-> "FromString", checked |-> FALSE, ptr |-> v, ns |-> NullString("", FALSE)]
FromInt(v) ==
    [fn |-> "FromInt", checked |-> FALSE, ptr |-> v, ns |-> NullString("", FALSE)]
Literal(ns) ==
    [fn |-> "Literal", checked |-> FALSE, ptr |-> Nil, ns |-> ns]
inputChecked(input) == [input EXCEPT !.checked = TRUE]

CallFromString(v) == IF v.nil THEN NullString("", FALSE) ELSE NullString(v.str, TRUE)

CallFromInt(v) == IF v.nil THEN NullString("", FALSE) ELSE NullString(Itoa(v.int), TRUE)

CheckedMutNoParse(v) == IF v.Valid THEN v ELSE NullString("", FALSE)

\* body of inputChecked, given the result v of input()
CallInputChecked(v) ==
    IF ~AtoiOk(v.String) THEN NullString("", FALSE)
    ELSE IF v.Valid THEN v
    ELSE NullString("", FALSE)

\* input() for a closure IntCol did not build
CallInput(input) ==
    CASE input.fn = "FromString" -> CallFromString(input.ptr)
      [] input.fn = "FromInt" -> CallFromInt(input.ptr)
      [] input.fn = "Literal" -> input.ns

\* evaluate a closure
Call(input) ==
    IF input.checked THEN CallInputChecked(CallInput(input)) ELSE CallInput(input)

-----------------------------------------------------------------------------
(* TableMap: construction and binding *)

EmptyFields == [n \in {} |-> 0]

NewTableMap(tableName) ==
    [TableName |-> tableName, Fields |-> EmptyFields, fieldOrder |-> <<>>]

StringCol(f, name, input) ==
    [f EXCEPT !.Fields = [n \in DOMAIN f.Fields \cup {name} |->
                            IF n = name THEN [Val |-> input] ELSE f.Fields[n]],
              !.fieldOrder = Append(@, name)]

IntCol(f, name, input) == StringCol(f, name, inputChecked(input))

toTableMapMutSwap(m) ==
    StringCol(
        StringCol(
            IntCol(NewTableMap(TABLE_NAME), "id", FromInt(m.ID)),
            "title", FromString(m.Body)),
        "body", FromString(m.Title))

\* Message.toTableMap, for a Message m = [ID, Title, Body] of pointers
toTableMap(m) ==
    StringCol(
        StringCol(
            IntCol(NewTableMap(TABLE_NAME), "id", FromInt(m.ID)),
            "title", FromString(m.Title)),
        "body", FromString(m.Body))

\* f.Fields[fieldName].Val()
Val(f, fieldName) == Call(f.Fields[fieldName].Val)

-----------------------------------------------------------------------------
(* Rendering *)

RECURSIVE Join(_, _)
\* strings.Join
Join(elems, sep) ==
    IF Len(elems) = 0 THEN ""
    ELSE IF Len(elems) = 1 THEN elems[1]
    ELSE elems[1] \o sep \o Join(Tail(elems), sep)

HelperMutSkipNull(f, inclnull) ==
    LET cols == SelectSeq(f.fieldOrder, LAMBDA n : Val(f, n).Valid) IN
    [cols |-> cols,
     placeholders |-> [i \in 1..Len(cols) |-> "?"],
     vals |-> [i \in 1..Len(cols) |-> Val(f, cols[i]).String]]

HelperMutShortPlaceholders(f, inclnull) ==
    LET cols == SelectSeq(f.fieldOrder, LAMBDA n : Val(f, n).Valid \/ inclnull) IN
    [cols |-> cols,
     placeholders |-> [i \in 1..(IF Len(cols) > 1 THEN Len(cols) - 1 ELSE Len(cols)) |-> "?"],
     vals |-> [i \in 1..Len(cols) |->
                 IF Val(f, cols[i]).Valid THEN Val(f, cols[i]).String ELSE "NULL"]]

getFieldsHelper(f, inclnull) ==
    LET cols == SelectSeq(f.fieldOrder, LAMBDA n : Val(f, n).Valid \/ inclnull) IN
    [cols |-> cols,
     placeholders |-> [i \in 1..Len(cols) |-> "?"],
     vals |-> [i \in 1..Len(cols) |->
                 IF Val(f, cols[i]).Valid THEN Val(f, cols[i]).String ELSE "NULL"]]

GetFieldsWithoutNulls(f) == getFieldsHelper(f, FALSE)

GetFields(f) == getFieldsHelper(f, TRUE)

CreateSql(f) ==
    LET g == GetFields(f) IN
    [sql |-> "INSERT INTO " \o f.TableName \o " (" \o Join(g.cols, ",")
                \o ") VALUES (" \o Join(g.placeholders, ",") \o ")\n",
     cols |-> g.cols, placeholders |-> g.placeholders, vals |-> g.vals]

\* the conditions FindSql collects: col + "=" + placeholders[i]
Where(cols, placeholders) == [i \in 1..Len(cols) |-> cols[i] \o "=" \o placeholders[i]]

FindSqlMutGuard(f) ==
    LET allcols == GetFields(f).cols
        g == GetFieldsWithoutNulls(f)
    IN  [sql |-> "SELECT " \o Join(allcols, ",") \o " FROM " \o f.TableName
                    \o (IF Len(g.cols) = 0 THEN ""
                        ELSE " WHERE " \o Join(Where(g.cols, g.placeholders), ",")),
         allcols |-> allcols, cols |-> g.cols, vals |-> g.vals]

FindSql(f) ==
    LET allcols == GetFields(f).cols
        g == GetFieldsWithoutNulls(f)
    IN  [sql |-> "SELECT " \o Join(allcols, ",") \o " FROM " \o f.TableName
                    \o " WHERE " \o Join(Where(g.cols, g.placeholders), ","),
         allcols |-> allcols, cols |-> g.cols, vals |-> g.vals]

-----------------------------------------------------------------------------
(* The SQL driver and the messages table (database/sql over sqlite3).      *)
(* The driver is handed the statement text and the values; it accepts the  *)
(* text only when it is well-formed SQL for the parts it was rendered from. *)

\* columns of the table prepareDB creates
TableCols == <<"id", "title", "body">>

ColSet == {TableCols[i] : i \in 1..Len(TableCols)}

SqlNull == [null |-> TRUE, v |-> ""]
SqlText(s) == [null |-> FALSE, v |-> s]

\* canonical text of an integer literal: no "+", no leading zeros
Canon(s) ==
    LET d == StripZeros(Unsigned(s)) IN
    IF d = "" THEN "0"
    ELSE (IF Head(s) = "-" THEN "-" ELSE "") \o d

\* INTEGER affinity of column id: integer-looking text is stored as the integer
Affinity(col, text) == IF col = "id" /\ AtoiOk(text) THEN Canon(text) ELSE text

\* first position of column c in cols, 0 when absent
IndexOf(cols, c) ==
    IF \E i \in 1..Len(cols) : cols[i] = c
    THEN CHOOSE i \in 1..Len(cols) : cols[i] = c /\ \A j \in 1..(i - 1) : cols[j] # c
    ELSE 0

\* the driver accepts an INSERT
ExecAccepted(s) ==
    /\ Len(s.cols) > 0
    /\ \A i \in 1..Len(s.cols) : s.cols[i] \in ColSet
    /\ Len(s.vals) = Len(s.placeholders)
    /\ s.sql = "INSERT INTO " \o TABLE_NAME \o " (" \o Join(s.cols, ",")
                 \o ") VALUES (" \o Join(s.placeholders, ",") \o ")\n"

\* the row an accepted INSERT stores
InsertedRow(s, rowid) ==
    [rowid |-> rowid,
     cells |-> [c \in ColSet |->
                  IF IndexOf(s.cols, c) = 0 THEN SqlNull
                  ELSE SqlText(Affinity(c, s.vals[IndexOf(s.cols, c)]))]]

\* the driver accepts a SELECT
QueryAccepted(s) ==
    /\ Len(s.allcols) > 0
    /\ Len(s.cols) > 0
    /\ \A i \in 1..Len(s.allcols) : s.allcols[i] \in ColSet
    /\ Len(s.vals) = Len(s.cols)
    /\ s.sql = "SELECT " \o Join(s.allcols, ",") \o " FROM " \o TABLE_NAME \o " WHERE "
                 \o Join([i \in 1..Len(s.cols) |-> s.cols[i] \o "=?"], " AND ")

\* a stored row satisfies every col=? of an accepted SELECT
Matches(row, s) ==
    \A i \in 1..Len(s.cols) :
        /\ ~row.cells[s.cols[i]].null
        /\ row.cells[s.cols[i]].v = Affinity(s.cols[i], s.vals[i])

\* the cursor of an accepted SELECT: the matching rows, in table order, each
\* holding the selected columns in the order of the select list
QueryRows(tbl, s) ==
    LET hit == SelectSeq(tbl, LAMBDA row : Matches(row, s)) IN
    [k \in 1..Len(hit) |->
        [rowid |-> hit[k].rowid,
         vals |-> [i \in 1..Len(s.allcols) |-> hit[k].cells[s.allcols[i]]]]]

NoRows == [state |-> "none", data |-> <<>>, pos |-> 0, err |-> FALSE]

CloseMutLeak(r) == r

\* rows.Close()
Close(r) == [r EXCEPT !.state = "closed"]

NoStmt == [op |-> "none", sql |-> "", vals |-> <<>>]

-----------------------------------------------------------------------------
(* Inputs *)

IntPtrs == {Nil, IntPtr(1), IntPtr(2)}

\* the records main builds, and their variations
Messages ==
    {[ID |-> i, Title |-> t[1], Body |-> t[2]] :
        i \in IntPtrs,
        t \in {<<Nil, Nil>>, <<StrPtr("My Title"), StrPtr("My Body")>>}}

Names == ColSet

Inputs == {FromInt(IntPtr(1)), FromString(Nil), FromString(StrPtr("My Title"))}

Alphabet == {"0", "7", "-", "+", "x"}

RECURSIVE TextsOfLen(_)
TextsOfLen(n) == IF n = 0 THEN {""}
                 ELSE {c \o t : c \in Alphabet, t \in TextsOfLen(n - 1)}

Texts == UNION {TextsOfLen(n) : n \in 0..MaxLen}
         \cup {MaxInt64, MinInt64Abs, "-" \o MinInt64Abs, "-9223372036854775809",
               "000000000000000000007", "My Title"}

TestInputs == {Literal(NullString(t, b)) : t \in Texts, b \in BOOLEAN}
              \cup {FromInt(p) : p \in IntPtrs \cup {IntPtr(0 - 12), IntPtr(0), IntPtr(2147483647)}}
              \cup {FromString(p) : p \in {Nil, StrPtr("1"), StrPtr("My Body")}}

-----------------------------------------------------------------------------
(* Initial state: main after prepareDB (empty table) and NewTableMap *)

Init ==
    /\ tm = NewTableMap(TABLE_NAME)
    /\ calls = <<>>
    /\ table = <<>>
    /\ pc = "build"
    /\ rows = NoRows
    /\ seen = <<>>
    /\ ret = "none"
    /\ stmt = NoStmt
    /\ created = <<>>
    /\ arg = FromString(Nil)
    /\ out = <<>>

CallRec(kind, name, input) == [kind |-> kind, name |-> name, input |-> input]

-----------------------------------------------------------------------------
(* Actions of the program *)

\* tm = msg.toTableMap(db)
ToTableMapCall(m) ==
    /\ pc = "build"
    /\ calls = <<>>
    /\ tm' = toTableMap(m)
    /\ calls' = <<CallRec("IntCol", "id", FromInt(m.ID)),
                  CallRec("StringCol", "title", FromString(m.Title)),
                  CallRec("StringCol", "body", FromString(m.Body))>>
    /\ UNCHANGED <<table, pc, rows, seen, ret, stmt, created, arg, out>>

\* tm.Create(): the driver executes the INSERT
CreateOk ==
    /\ pc = "build"
    /\ Len(table) < MaxRows
    /\ LET s == CreateSql(tm) IN
        /\ ExecAccepted(s)
        /\ stmt' = [op |-> "Exec", sql |-> s.sql, vals |-> s.vals]
        /\ table' = Append(table, InsertedRow(s, Len(table) + 1))
    /\ created' = Append(created, calls)
    /\ ret' = "nil"
    /\ pc' = "done"
    /\ UNCHANGED <<tm, calls, rows, seen, arg, out>>

\* tm.Create(): the driver returns an error (always so for a rejected statement)
CreateErr ==
    /\ pc = "build"
    /\ LET s == CreateSql(tm) IN
        stmt' = [op |-> "Exec", sql |-> s.sql, vals |-> s.vals]
    /\ ret' = "ExecErr"
    /\ pc' = "done"
    /\ UNCHANGED <<tm, calls, table, rows, seen, created, arg, out>>

\* tm.Find(parser): f.DB.Query returns an error; Find returns it
FindQueryErr ==
    /\ pc = "build"
    /\ LET s == FindSql(tm) IN
        stmt' = [op |-> "Query", sql |-> s.sql, vals |-> s.vals]
    /\ ret' = "QueryErr"
    /\ pc' = "done"
    /\ UNCHANGED <<tm, calls, table, rows, seen, created, arg, out>>

\* tm.Find(parser): f.DB.Query returns a cursor; defer rows.Close()
FindQueryOk ==
    /\ pc = "build"
    /\ LET s == FindSql(tm) IN
        /\ QueryAccepted(s)
        /\ stmt' = [op |-> "Query", sql |-> s.sql, vals |-> s.vals]
        /\ rows' = [state |-> "open", data |-> QueryRows(table, s), pos |-> 0, err |-> FALSE]
    /\ pc' = "next"
    /\ UNCHANGED <<tm, calls, table, seen, ret, created, arg, out>>

NextRowMutSkip ==
    /\ pc = "next"
    /\ rows.pos < Len(rows.data)
    /\ rows' = [rows EXCEPT !.pos = IF @ + 2 <= Len(rows.data) THEN @ + 2 ELSE @ + 1]
    /\ pc' = "parse"
    /\ UNCHANGED <<tm, calls, table, seen, ret, stmt, created, arg, out>>

\* rows.Next() returns true: the cursor is on the next row
NextRow ==
    /\ pc = "next"
    /\ rows.pos < Len(rows.data)
    /\ rows' = [rows EXCEPT !.pos = @ + 1]
    /\ pc' = "parse"
    /\ UNCHANGED <<tm, calls, table, seen, ret, stmt, created, arg, out>>

\* rows.Next() returns false, the rows are exhausted: return nil
NextDone ==
    /\ pc = "next"
    /\ rows.pos = Len(rows.data)
    /\ rows' = Close(rows)
    /\ ret' = "nil"
    /\ pc' = "done"
    /\ UNCHANGED <<tm, calls, table, seen, stmt, created, arg, out>>

\* rows.Next() returns false because stepping failed (rows.Err() is set);
\* the loop ends the same way and Find returns nil without reading rows.Err()
NextErr ==
    /\ pc = "next"
    /\ rows' = Close([rows EXCEPT !.err = TRUE])
    /\ ret' = "nil"
    /\ pc' = "done"
    /\ UNCHANGED <<tm, calls, table, seen, stmt, created, arg, out>>

\* parser(rows) returns nil
ParserOk ==
    /\ pc = "parse"
    /\ seen' = Append(seen, rows.data[rows.pos])
    /\ pc' = "next"
    /\ UNCHANGED <<tm, calls, table, rows, ret, stmt, created, arg, out>>

\* parser(rows) returns an error: Find returns it
ParserErr ==
    /\ pc = "parse"
    /\ seen' = Append(seen, rows.data[rows.pos])
    /\ rows' = Close(rows)
    /\ ret' = "ParserErr"
    /\ pc' = "done"
    /\ UNCHANGED <<tm, calls, table, stmt, created, arg, out>>

\* the TableMap is discarded and the next one constructed
NewTableMapCall ==
    /\ pc = "done"
    /\ tm' = NewTableMap(TABLE_NAME)
    /\ calls' = <<>>
    /\ pc' = "build"
    /\ rows' = NoRows
    /\ seen' = <<>>
    /\ ret' = "none"
    /\ stmt' = NoStmt
    /\ UNCHANGED <<table, created, arg, out>>

Next ==
    \/ \E m \in Messages : ToTableMapCall(m)
    \/ CreateOk
    \/ CreateErr
    \/ FindQueryErr
    \/ FindQueryOk
    \/ NextRow
    \/ NextDone
    \/ NextErr
    \/ ParserOk
    \/ ParserErr
    \/ NewTableMapCall

Spec == Init /\ [][Next]_vars

-----------------------------------------------------------------------------
(* The binder and the renderers on their own: any sequence of StringCol /   *)
(* IntCol calls, then CreateSql or FindSql.                                 *)

\* tm.StringCol(name, input)
StringColCall(name, input) ==
    /\ pc = "build"
    /\ Len(calls) < MaxBinds
    /\ tm' = StringCol(tm, name, input)
    /\ calls' = Append(calls, CallRec("StringCol", name, input))
    /\ UNCHANGED <<table, pc, rows, seen, ret, stmt, created, arg, out>>

\* tm.IntCol(name, input)
IntColCall(name, input) ==
    /\ pc = "build"
    /\ Len(calls) < MaxBinds
    /\ tm' = IntCol(tm, name, input)
    /\ calls' = Append(calls, CallRec("IntCol", name, input))
    /\ UNCHANGED <<table, pc, rows, seen, ret, stmt, created, arg, out>>

\* tm.CreateSql()
CreateSqlCall ==
    /\ pc = "build"
    /\ LET s == CreateSql(tm) IN
        stmt' = [op |-> "CreateSql", sql |-> s.sql, vals |-> s.vals]
    /\ pc' = "done"
    /\ UNCHANGED <<tm, calls, table, rows, seen, ret, created, arg, out>>

\* tm.FindSql()
FindSqlCall ==
    /\ pc = "build"
    /\ LET s == FindSql(tm) IN
        stmt' = [op |-> "FindSql", sql |-> s.sql, vals |-> s.vals]
    /\ pc' = "done"
    /\ UNCHANGED <<tm, calls, table, rows, seen, ret, created, arg, out>>

NextRender ==
    \/ \E name \in Names, input \in Inputs : StringColCall(name, input)
    \/ \E name \in Names, input \in Inputs : IntColCall(name, input)
    \/ CreateSqlCall
    \/ FindSqlCall
    \/ NewTableMapCall

SpecRender == Init /\ [][NextRender]_vars

-----------------------------------------------------------------------------
(* The integer binder on its own: one accessor, bound with IntCol and       *)
(* evaluated.                                                               *)

InitIntCol ==
    /\ tm = NewTableMap(TABLE_NAME)
    /\ calls = <<>>
    /\ table = <<>>
    /\ pc = "build"
    /\ rows = NoRows
    /\ seen = <<>>
    /\ ret = "none"
    /\ stmt = NoStmt
    /\ created = <<>>
    /\ arg \in TestInputs
    /\ out = <<>>

\* tm.IntCol("id", arg)
IntColArg ==
    /\ pc = "build"
    /\ calls = <<>>
    /\ tm' = IntCol(tm, "id", arg)
    /\ calls' = <<CallRec("IntCol", "id", arg)>>
    /\ UNCHANGED <<table, pc, rows, seen, ret, stmt, created, arg, out>>

\* tm.Fields["id"].Val()
ValCall ==
    /\ "id" \in DOMAIN tm.Fields
    /\ out = <<>>
    /\ out' = <<Val(tm, "id")>>
    /\ UNCHANGED <<tm, calls, table, pc, rows, seen, ret, stmt, created, arg>>

NextIntCol == IntColArg \/ ValCall

SpecIntCol == InitIntCol /\ [][NextIntCol]_vars

-----------------------------------------------------------------------------
(* Properties *)

EndsWith(s, suffix) ==
    /\ Len(s) >= Len(suffix)
    /\ SubSeq(s, Len(s) - Len(suffix) + 1, Len(s)) = suffix

\* the bound names, in binding order, whose value is present / all of them
PresentCols == SelectSeq(tm.fieldOrder, LAMBDA n : Val(tm, n).Valid)
AllPresent == \A i \in 1..Len(tm.fieldOrder) : Val(tm, tm.fieldOrder[i]).Valid
NonePresent == \A i \in 1..Len(tm.fieldOrder) : ~Val(tm, tm.fieldOrder[i]).Valid
DistinctNames == \A i, j \in 1..Len(calls) : i # j => calls[i].name # calls[j].name

\* the accessor a call stores in Fields
Accessor(c) == IF c.kind = "IntCol" THEN inputChecked(c.input) ELSE c.input

\* the last call that bound name n
LastCall(n) ==
    calls[CHOOSE i \in 1..Len(calls) :
            /\ calls[i].name = n
            /\ \A j \in (i + 1)..Len(calls) : calls[j].name # n]

\* a Find that opened a cursor has returned
FindReturned == pc = "done" /\ stmt.op = "Query" /\ rows.state # "none"

\* C1: an error of the callback or of row iteration ends Find at once and is
\* returned: after a callback error on row k no later row is handed to the
\* callback and Find returns that error, and when iteration stopped on an
\* iteration error Find returns a non-nil error.
C1_ErrorsPropagate ==
    /\ ret = "ParserErr" => pc = "done" /\ Len(seen) = rows.pos
    /\ FindReturned /\ rows.err => ret # "nil"

\* C2: over a cursor r1..rn the callback is invoked on the rows in cursor
\* order, once each, none skipped; when neither the callback nor the
\* iteration fails it has been invoked on all n rows and Find returns nil.
C2_OncePerRowInOrder ==
    rows.state # "none" =>
        /\ Len(seen) <= Len(rows.data)
        /\ seen = SubSeq(rows.data, 1, Len(seen))
        /\ Len(seen) = IF pc = "parse" THEN rows.pos - 1 ELSE rows.pos
        /\ \A i, j \in 1..Len(seen) : i # j => seen[i].rowid # seen[j].rowid
        /\ FindReturned /\ ret # "ParserErr" /\ ~rows.err =>
              seen = rows.data /\ ret = "nil"

C2_Witness ==
    /\ FindReturned
    /\ ret = "nil"
    /\ ~rows.err
    /\ Len(rows.data) = 3
    /\ Len(seen) = 3

\* C3: once Find has returned, no cursor it opened is open, whichever way it
\* returned; a failed query opens no cursor; and the cursor is open all the
\* while Find iterates.
C3_CursorReleased ==
    /\ pc = "done" => rows.state # "open"
    /\ ret = "QueryErr" => rows.state = "none"
    /\ pc \in {"next", "parse"} => rows.state = "open"
    /\ FindReturned => rows.state = "closed"

\* the callback failed on the second row of three
C3_Witness ==
    /\ FindReturned
    /\ ret = "ParserErr"
    /\ Len(rows.data) = 3
    /\ rows.pos = 2
    /\ rows.state = "closed"

\* C4: with at least one present column (and every name bound once), FindSql
\* renders SELECT <bound columns> FROM <table> WHERE p1 AND p2 AND ..., one
\* col=? per present column in binding order, and returns the present
\* columns' values in that order.
C4_FindSqlJoinsWithAnd ==
    (pc = "done" /\ stmt.op = "FindSql" /\ DistinctNames /\ Len(PresentCols) >= 1) =>
        /\ stmt.sql = "SELECT " \o Join(tm.fieldOrder, ",") \o " FROM " \o TABLE_NAME
                        \o " WHERE "
                        \o Join([i \in 1..Len(PresentCols) |-> PresentCols[i] \o "=?"], " AND ")
        /\ stmt.vals = [i \in 1..Len(PresentCols) |-> Val(tm, PresentCols[i]).String]

\* C5: each name is bound at most once in the binding set, so it appears at
\* most once in the lists CreateSql and FindSql render, and it carries the
\* accessor of the last call that bound it.
C5_NamesBoundOnce ==
    \A n \in Names :
        /\ Cardinality({i \in 1..Len(tm.fieldOrder) : tm.fieldOrder[i] = n}) <= 1
        /\ Cardinality({i \in 1..Len(CreateSql(tm).cols) : CreateSql(tm).cols[i] = n}) <= 1
        /\ Cardinality({i \in 1..Len(FindSql(tm).allcols) : FindSql(tm).allcols[i] = n}) <= 1
        /\ n \in DOMAIN tm.Fields => tm.Fields[n].Val = Accessor(LastCall(n))

\* C6 as stated: the accessor IntCol builds reports the value absent exactly
\* when the input's text fails integer parsing, and returns the input's text
\* and presence flag unchanged when the text parses.
C6_AbsentIffParseFails ==
    out # <<>> =>
        LET v == CallInput(arg) IN
        /\ ~out[1].Valid <=> ~AtoiOk(v.String)
        /\ AtoiOk(v.String) => out[1] = v

\* C6 amended: the accessor IntCol builds reports the value absent exactly
\* when the input is absent or its text fails integer parsing; a present
\* input whose text parses is returned unchanged, and every absent result
\* carries the empty text.
C6_AbsentIffParseFailsOrAbsent ==
    out # <<>> =>
        LET v == CallInput(arg) IN
        /\ ~out[1].Valid <=> (~v.Valid \/ ~AtoiOk(v.String))
        /\ (v.Valid /\ AtoiOk(v.String)) => out[1] = v
        /\ ~out[1].Valid => out[1].String = ""

\* a present signed integer text went through the binder
C6_Witness ==
    /\ out # <<>>
    /\ CallInput(arg) = NullString("-70", TRUE)
    /\ out[1] = NullString("-70", TRUE)

\* C7: when every column's value is present, CreateSql's column list,
\* placeholder list and value list all have as many entries as bindings were
\* made, and entry i of each belongs to the i-th bound column.
C7_InsertListsAgree ==
    (pc = "done" /\ stmt.op = "CreateSql" /\ AllPresent) =>
        LET s == CreateSql(tm) IN
        /\ Len(s.cols) = Len(calls)
        /\ Len(s.placeholders) = Len(calls)
        /\ Len(stmt.vals) = Len(calls)
        /\ \A i \in 1..Len(calls) :
              /\ s.cols[i] = calls[i].name
              /\ s.placeholders[i] = "?"
              /\ stmt.vals[i] = Val(tm, calls[i].name).String
        /\ stmt.sql = "INSERT INTO " \o TABLE_NAME
                        \o " (" \o Join([i \in 1..Len(calls) |-> calls[i].name], ",")
                        \o ") VALUES (" \o Join([i \in 1..Len(calls) |-> "?"], ",") \o ")\n"

C7_Witness ==
    /\ pc = "done"
    /\ stmt.op = "CreateSql"
    /\ AllPresent
    /\ DistinctNames
    /\ Len(calls) = 3
    /\ stmt.sql = "INSERT INTO messages (id,title,body) VALUES (?,?,?)\n"

\* C8: CreateSql keeps a column whose value is absent: it is in the column
\* list with a ? placeholder and its value is the text "NULL"; a present
\* column's position carries that column's own text.
C8_InsertAbsentAsNullText ==
    (pc = "done" /\ stmt.op = "CreateSql") =>
        LET s == CreateSql(tm) IN
        /\ Len(s.cols) = Len(calls)
        /\ stmt.vals = s.vals
        /\ \A i \in 1..Len(calls) :
              LET v == Call(Accessor(LastCall(calls[i].name))) IN
              /\ s.cols[i] = calls[i].name
              /\ s.placeholders[i] = "?"
              /\ ~v.Valid => stmt.vals[i] = "NULL"
              /\ v.Valid => stmt.vals[i] = v.String

C8_Witness ==
    /\ pc = "done"
    /\ stmt.op = "CreateSql"
    /\ DistinctNames
    /\ Len(calls) = 3
    /\ stmt.vals = <<"1", "NULL", "My Title">>

\* the two TableMaps of main
MsgAll == [ID |-> IntPtr(1), Title |-> StrPtr("My Title"), Body |-> StrPtr("My Body")]
MsgById == [ID |-> IntPtr(1), Title |-> Nil, Body |-> Nil]

\* Create of MsgAll on the empty table is the only Create so far, and a Find
\* of MsgById got its cursor and iterated it to the end
RoundTrip ==
    /\ Len(created) = 1
    /\ created[1] = <<CallRec("IntCol", "id", FromInt(MsgAll.ID)),
                      CallRec("StringCol", "title", FromString(MsgAll.Title)),
                      CallRec("StringCol", "body", FromString(MsgAll.Body))>>
    /\ calls = <<CallRec("IntCol", "id", FromInt(MsgById.ID)),
                 CallRec("StringCol", "title", FromString(MsgById.Title)),
                 CallRec("StringCol", "body", FromString(MsgById.Body))>>
    /\ FindReturned
    /\ ret = "nil"
    /\ ~rows.err

\* C9: from the empty table, Create of {id=1, title="My Title", body="My Body"}
\* followed by Find of {id=1} invokes the callback for exactly one row, which
\* holds the three values that were inserted.
C9_RoundTrip ==
    RoundTrip =>
        /\ Len(seen) = 1
        /\ seen[1].vals = <<SqlText("1"), SqlText("My Title"), SqlText("My Body")>>

C9_Witness == RoundTrip /\ Len(seen) = 1 /\ stmt.vals = <<"1">>

\* C10: with no present column FindSql still renders a statement: it ends in
\* "WHERE " and has no values; Find hands exactly that to the driver, and
\* what Find returns is the driver's error, with no callback invoked and no
\* cursor open.
C10_EmptyPredicate ==
    /\ (pc = "build" /\ NonePresent) =>
          /\ EndsWith(FindSql(tm).sql, " FROM " \o TABLE_NAME \o " WHERE ")
          /\ FindSql(tm).vals = <<>>
    /\ (pc = "done" /\ stmt.op = "Query" /\ NonePresent) =>
          /\ EndsWith(stmt.sql, " FROM " \o TABLE_NAME \o " WHERE ")
          /\ stmt.vals = <<>>
          /\ ret = "QueryErr"
          /\ seen = <<>>
          /\ rows.state = "none"

C10_Witness ==
    /\ pc = "done"
    /\ stmt.op = "Query"
    /\ Len(calls) = 3
    /\ NonePresent
    /\ stmt.sql = "SELECT id,title,body FROM messages WHERE "
    /\ ret = "QueryErr"

====
